---- MODULE Spec2Model ----
(***************************************************************************)
(* Model of the Streamlit readmission predictor (src/app.py): the script   *)
(* run (artifact loading, sidebar widgets, the Predict handler) and the    *)
(* feature reconciliation done by build_input_row.  pandas semantics are   *)
(* those of pandas 2.x (label enlargement by .loc, upcast of a float64     *)
(* column on assignment of text, astype(str), to_numeric(errors="coerce")).*)
(***************************************************************************)
EXTENDS Integers, Sequences, FiniteSets, TLC

VARIABLES
    pc,            \* position of the script run / of the reconcile harness
    diskColumns,   \* content of model_columns.pkl
    diskDtypes,    \* content of model_dtypes.pkl
    model,         \* global `model`   (app.py:13)
    columns,       \* global `columns` (app.py:14)
    dtypes,        \* global `dtypes`  (app.py:15)
    widgets,       \* values returned by the sidebar widgets (app.py:44-82)
    input_data,    \* result of build_input_row() at app.py:149
    again,         \* result of reconciling the reconciled record once more
    loadFailed,    \* an except branch of app.py:16-21 ran in this run
    calls,         \* calls made in this run: "build", "predict", "predict_proba"
    failedCall,    \* the pipeline call that raised in this run, or "none"
    display        \* elements shown on the page in this run

vars == <<pc, diskColumns, diskDtypes, model, columns, dtypes, widgets,
          input_data, again, loadFailed, calls, failedCall, display>>

-----------------------------------------------------------------------------
(* Bounds *)

\* longest enumerated column list (the scenario schemas are added as they are)
MaxCols == 2

-----------------------------------------------------------------------------
(* Cell values of the one-row DataFrame *)

NaN     == [t |-> "nan",   s |-> "", n |-> 0]
StrV(x)  == [t |-> "str",   s |-> x,  n |-> 0]
IntV(k)  == [t |-> "int",   s |-> "", n |-> k]
FltV(k)  == [t |-> "float", s |-> "", n |-> k]
Err     == [t |-> "error", s |-> "", n |-> 0]

\* pd.isna on a scalar
IsNa(v) == v.t = "nan"

\* Python's None, as returned by dtypes.get(col)
None == "<None>"

\* largest number a sidebar widget can return
MaxNumber == 150

Digit(d) == <<"0", "1", "2", "3", "4", "5", "6", "7", "8", "9">>[d + 1]

RECURSIVE IntStr(_)
\* str(k) for a non-negative int
IntStr(k) == IF k < 10 THEN Digit(k) ELSE IntStr(k \div 10) \o Digit(k % 10)

\* str(x) for an integral float x
FloatStr(k) == IntStr(k) \o ".0"

\* df[col].astype(str) on one cell, as a plain string
TextOf(v) ==
    CASE v.t = "str"   -> v.s
      [] v.t = "int"   -> IntStr(v.n)
      [] v.t = "float" -> FloatStr(v.n)
      [] OTHER         -> "nan"

\* the same coercion written with repr() instead of str()
AsTypeStr_Repr(v) == IF v.t = "str" THEN StrV("'" \o v.s \o "'") ELSE StrV(TextOf(v))

\* df[col].astype(str) on one cell (app.py:138)
AsTypeStr(v) == StrV(TextOf(v))

\* the texts pd.to_numeric parses to a sidebar-range number
IntNumerals == [k \in 0..MaxNumber |-> IntStr(k)]
FloatNumerals == [k \in 0..MaxNumber |-> FloatStr(k)]

\* pd.to_numeric(..., errors="coerce") on one cell (app.py:141)
ToNumeric(v) ==
    IF v.t # "str" THEN v
    ELSE IF \E k \in 0..MaxNumber : IntNumerals[k] = v.s
         THEN IntV(CHOOSE k \in 0..MaxNumber : IntNumerals[k] = v.s)
    ELSE IF \E k \in 0..MaxNumber : FloatNumerals[k] = v.s
         THEN FltV(CHOOSE k \in 0..MaxNumber : FloatNumerals[k] = v.s)
    ELSE NaN

\* .fillna(0) on one cell (app.py:141)
FillNa0(v) == IF IsNa(v) THEN FltV(0) ELSE v

\* .astype(target_dtype) on one numeric cell (app.py:141); an integer dtype
\* cannot hold NaN and pandas raises
AsType(v, target_dtype) ==
    CASE v.t = "nan" /\ target_dtype = "float64" -> NaN
      [] v.t = "nan"                             -> Err
      [] target_dtype = "float64"                -> FltV(v.n)
      [] OTHER                                   -> IntV(v.n)

\* the numeric coercion without the .fillna(0)
CoerceNumeric_NoFill(v, target_dtype) == AsType(ToNumeric(v), target_dtype)

\* pd.to_numeric(df[col], errors="coerce").fillna(0).astype(target_dtype)
CoerceNumeric(v, target_dtype) == AsType(FillNa0(ToNumeric(v)), target_dtype)

-----------------------------------------------------------------------------
(* Sequences and dicts *)

Range(seq) == {seq[i] : i \in 1..Len(seq)}

\* `x in columns`
InList(x, seq) == x \in Range(seq)

NoDuplicates(seq) == \A i, j \in 1..Len(seq) : seq[i] = seq[j] => i = j

RECURSIVE Unique(_)
\* keys of a dict built from a list, in first-occurrence order
Unique(seq) ==
    IF seq = <<>> THEN <<>>
    ELSE LET front == Unique(SubSeq(seq, 1, Len(seq) - 1))
             last  == seq[Len(seq)]
         IN IF InList(last, front) THEN front ELSE Append(front, last)

\* dtypes.get(col) == DictGet(dtypes, col, None); dtypes.get(col, 'object')
DictGet(d, key, default) == IF key \in DOMAIN d THEN d[key] ELSE default


-----------------------------------------------------------------------------
(* The one-row DataFrame: column labels in order, the cell under each     *)
(* label, and the number of rows.  A column's dtype is that of its cell:  *)
(* NaN and float cells are float64, int cells int64, text cells object.   *)

\* pd.DataFrame({col: [np.nan] for col in columns}) (app.py:97)
NewFrame(cols) ==
    [cols |-> Unique(cols),
     val  |-> [c \in Range(cols) |-> NaN],
     rows |-> IF cols = <<>> THEN 0 ELSE 1]

\* the cell after assigning v into a column holding old: a float64 column
\* keeps its dtype for a number and is upcast to object for text
Store(old, v) == IF old.t \in {"nan", "float"} /\ v.t = "int" THEN FltV(v.n) ELSE v

\* df.loc[0, label] = v; an unknown label (or row 0 of an empty frame) is
\* added by enlargement
SetLoc(df, label, v) ==
    IF InList(label, df.cols)
    THEN [df EXCEPT !.val = [df.val EXCEPT ![label] = Store(df.val[label], v)]]
    ELSE [cols |-> Append(df.cols, label),
          val  |-> (label :> v) @@ df.val,
          rows |-> 1]

\* the sidebar fields, by the column each is written to
UIFields == {"age", "time_in_hospital", "num_lab_procedures", "num_medications",
             "race", "gender", "A1Cresult"}

\* step 1 with num_lab_procedures and num_medications written to each
\* other's column
InsertUserInputs_Swapped(df, cols, w) ==
    LET d1 == SetLoc(df, "age", w.age)
        d2 == SetLoc(d1, "time_in_hospital", w.time_in_hospital)
        d3 == SetLoc(d2, "num_lab_procedures", w.num_medications)
        d4 == SetLoc(d3, "num_medications", w.num_lab_procedures)
        d5 == IF InList("race", cols) THEN SetLoc(d4, "race", w.race) ELSE d4
        d6 == IF InList("gender", cols) THEN SetLoc(d5, "gender", w.gender) ELSE d5
    IN IF InList("A1Cresult", cols) THEN SetLoc(d6, "A1Cresult", w.A1Cresult) ELSE d6

\* step 1 of build_input_row (app.py:100-111)
InsertUserInputs(df, cols, w) ==
    LET d1 == SetLoc(df, "age", w.age)
        d2 == SetLoc(d1, "time_in_hospital", w.time_in_hospital)
        d3 == SetLoc(d2, "num_lab_procedures", w.num_lab_procedures)
        d4 == SetLoc(d3, "num_medications", w.num_medications)
        d5 == IF InList("race", cols) THEN SetLoc(d4, "race", w.race) ELSE d4
        d6 == IF InList("gender", cols) THEN SetLoc(d5, "gender", w.gender) ELSE d5
    IN IF InList("A1Cresult", cols) THEN SetLoc(d6, "A1Cresult", w.A1Cresult) ELSE d6

\* safe_default of app.py:120-124
SafeDefault(col) ==
    CASE col = "race"   -> "Caucasian"
      [] col = "gender" -> "Female"
      [] OTHER          -> "None"

\* the value written into a missing cell (app.py:116-129)
DefaultFor(col, dts) ==
    IF DictGet(dts, col, None) = "object" THEN StrV(SafeDefault(col)) ELSE IntV(0)

RECURSIVE FillDefaults(_, _, _)
\* step 2 of build_input_row: for col in columns (app.py:114-129)
FillDefaults(df, cols, dts) ==
    IF cols = <<>> THEN df
    ELSE LET col  == Head(cols)
             next == IF IsNa(df.val[col]) THEN SetLoc(df, col, DefaultFor(col, dts))
                     ELSE df
         IN FillDefaults(next, Tail(cols), dts)

\* step 3 without the column selection
Reorder_Skipped(df, cols) == df

\* df = df[columns] (app.py:132)
Reorder(df, cols) ==
    [cols |-> cols, val |-> [c \in Range(cols) |-> df.val[c]], rows |-> df.rows]

\* df[col] is a DataFrame, not a Series, when the label col is duplicated
IsDuplicated(df, col) == Cardinality({i \in 1..Len(df.cols) : df.cols[i] = col}) > 1

RECURSIVE EnforceDtypes(_, _, _)
\* step 3 of build_input_row: for col in df.columns (app.py:134-141), from
\* the i-th label on.  pd.to_numeric rejects a DataFrame with a TypeError.
EnforceDtypes(df, dts, i) ==
    IF i > Len(df.cols) THEN [df |-> df, raised |-> "none"]
    ELSE LET col          == df.cols[i]
             target_dtype == DictGet(dts, col, "object")
             cell         == IF target_dtype = "object" THEN AsTypeStr(df.val[col])
                             ELSE CoerceNumeric(df.val[col], target_dtype)
         IN IF target_dtype # "object" /\ IsDuplicated(df, col)
            THEN [df |-> df, raised |-> "TypeError"]
            ELSE IF cell.t = "error"
            THEN [df |-> df, raised |-> "IntCastingNaNError"]
            ELSE EnforceDtypes([df EXCEPT !.val = [df.val EXCEPT ![col] = cell]],
                               dts, i + 1)

\* the globals after a call that appends the labels it wrote to `columns`
GlobalsAfterBuild_Appended(cols, dts) ==
    [columns |-> cols \o <<"age">>, dtypes |-> dts]

\* build_input_row reads the globals columns and dtypes and assigns neither
GlobalsAfterBuild(cols, dts) == [columns |-> cols, dtypes |-> dts]

\* build_input_row() (app.py:87-143): the returned frame, the exception that
\* ended the call if any, and the globals it leaves
build_input_row(cols, dts, w) ==
    LET d0  == NewFrame(cols)
        d1  == InsertUserInputs(d0, cols, w)
        d2  == FillDefaults(d1, cols, dts)
        d3  == Reorder(d2, cols)
        out == EnforceDtypes(d3, dts, 1)
        g   == GlobalsAfterBuild(cols, dts)
    IN [df |-> out.df, raised |-> out.raised,
        columns |-> g.columns, dtypes |-> g.dtypes]

-----------------------------------------------------------------------------
(* Inputs: the persisted artifacts and the sidebar *)

\* column names a persisted column list is drawn from: the seven the sidebar
\* writes and two of the dataset it never writes (one text, one integer)
ColumnNames == UIFields \cup {"weight", "number_inpatient"}

\* X.dtypes.astype(str) of the training frame (training.py:25)
DtypeNames == {"object", "int64"}

\* dicts from some of the labels S to dtype names
DtypeMaps(S) == UNION {[K -> DtypeNames] : K \in SUBSET S}

SchemasOver(cols) == {[columns |-> cols, dtypes |-> d] : d \in DtypeMaps(Range(cols))}

\* the spec's scenario schema, and a nine-column schema as training.py
\* writes it
ScenarioColumns ==
    <<"age", "time_in_hospital", "num_lab_procedures", "num_medications", "race">>

ScenarioSchema ==
    [columns |-> ScenarioColumns,
     dtypes  |-> [c \in Range(ScenarioColumns) |->
                    IF c \in {"age", "race"} THEN "object" ELSE "int64"]]

TrainingColumns ==
    <<"race", "gender", "age", "weight", "time_in_hospital", "num_lab_procedures",
      "num_medications", "number_inpatient", "A1Cresult">>

TrainingSchema ==
    [columns |-> TrainingColumns,
     dtypes  |-> [c \in Range(TrainingColumns) |->
                    IF c \in {"race", "gender", "age", "weight", "A1Cresult"}
                    THEN "object" ELSE "int64"]]

\* the artifact contents considered: every column list of at most MaxCols
\* names (empty and duplicated ones included) with every partial or total
\* dtype dict, and the two schemas above
Schemas ==
    UNION {UNION {SchemasOver(cols) : cols \in [1..k -> ColumnNames]} : k \in 0..MaxCols}
    \cup {ScenarioSchema, TrainingSchema}

Sidebar(a, t, l, m, r, g, c) ==
    [age |-> StrV(a), time_in_hospital |-> IntV(t), num_lab_procedures |-> IntV(l),
     num_medications |-> IntV(m), race |-> StrV(r), gender |-> StrV(g),
     A1Cresult |-> StrV(c)]

\* widget values considered (options and ranges of app.py:44-80): the
\* defaults, the spec's scenario, the maxima and the minima
WidgetStates ==
    {Sidebar("[0-10)", 3, 40, 10, "Caucasian", "Female", "None"),
     Sidebar("[50-60)", 3, 40, 10, "Asian", "Male", ">8"),
     Sidebar("[90-100)", 14, 150, 70, "Other", "Other", "Norm"),
     Sidebar("[0-10)", 1, 0, 0, "AfricanAmerican", "Male", ">7")}

NoWidgets == [predict_btn |-> FALSE]
NoFrame == [df |-> NewFrame(<<>>), raised |-> None, columns |-> <<>>, dtypes |-> <<>>]
Unloaded == <<>>

-----------------------------------------------------------------------------
(* The script run (Streamlit runs app.py top to bottom on every interaction) *)

\* the except branches with the st.stop() of the generic one missing
LoadResult_NoStop(failAt, exc) ==
    [model   |-> IF failAt # 1 THEN "pipeline" ELSE Unloaded,
     columns |-> IF failAt \notin {1, 2} THEN diskColumns ELSE Unloaded,
     dtypes  |-> IF failAt = 0 THEN diskDtypes ELSE Unloaded,
     failed  |-> failAt # 0,
     display |-> IF failAt = 0 THEN {}
                 ELSE IF exc = "FileNotFoundError" THEN {"error:files_not_found"}
                 ELSE {"error:loading"},
     pc      |-> IF failAt # 0 /\ exc = "FileNotFoundError" THEN "stopped" ELSE "sidebar"]

\* app.py:12-21: the three joblib.load calls in order, the failAt-th raising
\* exc (0: none raises); both except branches report and st.stop()
LoadResult(failAt, exc) ==
    [model   |-> IF failAt # 1 THEN "pipeline" ELSE Unloaded,
     columns |-> IF failAt \notin {1, 2} THEN diskColumns ELSE Unloaded,
     dtypes  |-> IF failAt = 0 THEN diskDtypes ELSE Unloaded,
     failed  |-> failAt # 0,
     display |-> IF failAt = 0 THEN {}
                 ELSE IF exc = "FileNotFoundError" THEN {"error:files_not_found"}
                 ELSE {"error:loading"},
     pc      |-> IF failAt = 0 THEN "sidebar" ELSE "stopped"]

LoadArtifacts ==
    /\ pc = "start"
    /\ \E failAt \in 0..3, exc \in {"FileNotFoundError", "Exception"} :
         LET r == LoadResult(failAt, exc)
         IN /\ model' = r.model
            /\ columns' = r.columns
            /\ dtypes' = r.dtypes
            /\ loadFailed' = r.failed
            /\ display' = r.display
            /\ pc' = r.pc
    /\ UNCHANGED <<diskColumns, diskDtypes, widgets, input_data, again, calls,
                   failedCall>>

\* app.py:44-82: the widgets return the user's current choices
SidebarInputs ==
    /\ pc = "sidebar"
    /\ \E w \in WidgetStates, btn \in BOOLEAN :
         widgets' = w @@ [predict_btn |-> btn]
    /\ pc' = "run_prediction"
    /\ UNCHANGED <<diskColumns, diskDtypes, model, columns, dtypes, input_data,
                   again, loadFailed, calls, failedCall, display>>

\* outcomes of model.predict(input_data)[0] and model.predict_proba(...)[0][1]
PredictOutcomes == {"1", "0", "ValueError", "Exception"}
ProbaOutcomes == {"prob", "ValueError", "Exception"}
Raises(outcome) == outcome \in {"ValueError", "Exception"}

\* the handler with the result shown before predict_proba is called and the
\* generic except branch passing silently
PredictHandler_Swallow(p, q) ==
    [calls   |-> IF Raises(p) THEN {"predict"} ELSE {"predict", "predict_proba"},
     display |->
        CASE p = "ValueError" -> {"error:prediction", "error:verify_defaults"}
          [] p = "Exception"  -> {}
          [] q = "ValueError" -> {"error:prediction", "error:verify_defaults",
                                  IF p = "1" THEN "result:high_risk" ELSE "result:low_risk"}
          [] q = "Exception"  -> {IF p = "1" THEN "result:high_risk" ELSE "result:low_risk"}
          [] OTHER            -> {IF p = "1" THEN "result:high_risk" ELSE "result:low_risk",
                                  "result:probability", "result:gauge"}]

\* app.py:151-194: the calls made and the elements shown when predict ends
\* as p and predict_proba (called only after predict returned) as q
PredictHandler(p, q) ==
    [calls   |-> IF Raises(p) THEN {"predict"} ELSE {"predict", "predict_proba"},
     display |->
        CASE p = "ValueError" \/ (~Raises(p) /\ q = "ValueError")
                   -> {"error:prediction", "error:verify_defaults"}
          [] p = "Exception" \/ (~Raises(p) /\ q = "Exception")
                   -> {"error:unexpected"}
          [] p = "1" -> {"result:high_risk", "result:probability", "result:gauge"}
          [] OTHER   -> {"result:low_risk", "result:probability", "result:gauge"}]

\* app.py:148 with predict_btn False: the handler is skipped
SkipPrediction ==
    /\ pc = "run_prediction"
    /\ ~widgets.predict_btn
    /\ pc' = "done"
    /\ UNCHANGED <<diskColumns, diskDtypes, model, columns, dtypes, widgets,
                   input_data, again, loadFailed, calls, failedCall, display>>

\* app.py:148-194 with predict_btn True.  build_input_row is called outside
\* the try: an exception of it ends the run with Streamlit's traceback.
RunPrediction ==
    /\ pc = "run_prediction"
    /\ widgets.predict_btn
    /\ LET b == build_input_row(columns, dtypes, widgets)
       IN /\ input_data' = b
          /\ columns' = b.columns
          /\ dtypes' = b.dtypes
          /\ IF b.raised # "none"
             THEN /\ calls' = {"build"}
                  /\ failedCall' = "none"
                  /\ display' = display \cup {"uncaught:" \o b.raised}
             ELSE \E p \in PredictOutcomes, q \in ProbaOutcomes :
                    LET h == PredictHandler(p, q)
                    IN /\ calls' = {"build"} \cup h.calls
                       /\ failedCall' = IF Raises(p) THEN "predict"
                                        ELSE IF Raises(q) THEN "predict_proba"
                                        ELSE "none"
                       /\ display' = display \cup h.display
    /\ pc' = "done"
    /\ UNCHANGED <<diskColumns, diskDtypes, model, widgets, again, loadFailed>>

\* the next interaction: the script runs again in a fresh namespace
Rerun ==
    /\ pc \in {"done", "stopped"}
    /\ pc' = "start"
    /\ model' = Unloaded
    /\ columns' = Unloaded
    /\ dtypes' = Unloaded
    /\ widgets' = NoWidgets
    /\ input_data' = NoFrame
    /\ loadFailed' = FALSE
    /\ calls' = {}
    /\ failedCall' = "none"
    /\ display' = {}
    /\ UNCHANGED <<diskColumns, diskDtypes, again>>

Init ==
    /\ pc = "start"
    /\ \E sch \in Schemas : diskColumns = sch.columns /\ diskDtypes = sch.dtypes
    /\ model = Unloaded
    /\ columns = Unloaded
    /\ dtypes = Unloaded
    /\ widgets = NoWidgets
    /\ input_data = NoFrame
    /\ again = NoFrame
    /\ loadFailed = FALSE
    /\ calls = {}
    /\ failedCall = "none"
    /\ display = {}

Next == LoadArtifacts \/ SidebarInputs \/ SkipPrediction \/ RunPrediction \/ Rerun

Spec == Init /\ [][Next]_vars

-----------------------------------------------------------------------------
(* build_input_row as a function of the schema and the sidebar values: it  *)
(* is applied to every input, and once more to its own result.             *)

\* the record's cells taken as the sidebar values of a second call
FeedBack(w, df) ==
    [f \in DOMAIN w |-> IF f \in UIFields /\ InList(f, df.cols) THEN df.val[f] ELSE w[f]]

Reconcile ==
    /\ pc = "reconcile"
    /\ input_data' = build_input_row(columns, dtypes, widgets)
    /\ calls' = {"build"}
    /\ pc' = "reconciled"
    /\ UNCHANGED <<diskColumns, diskDtypes, model, columns, dtypes, widgets, again,
                   loadFailed, failedCall, display>>

ReconcileAgain ==
    /\ pc = "reconciled"
    /\ input_data.raised = "none"
    /\ again' = build_input_row(columns, dtypes, FeedBack(widgets, input_data.df))
    /\ pc' = "reconciled_again"
    /\ UNCHANGED <<diskColumns, diskDtypes, model, columns, dtypes, widgets,
                   input_data, loadFailed, calls, failedCall, display>>

InitReconcile ==
    /\ pc = "reconcile"
    /\ \E sch \in Schemas :
         /\ diskColumns = sch.columns /\ diskDtypes = sch.dtypes
         /\ columns = sch.columns /\ dtypes = sch.dtypes
    /\ model = "pipeline"
    /\ widgets \in {w @@ [predict_btn |-> TRUE] : w \in WidgetStates}
    /\ input_data = NoFrame
    /\ again = NoFrame
    /\ loadFailed = FALSE
    /\ calls = {}
    /\ failedCall = "none"
    /\ display = {}

NextReconcile == Reconcile \/ ReconcileAgain

SpecReconcile == InitReconcile /\ [][NextReconcile]_vars

-----------------------------------------------------------------------------
(* Properties of build_input_row, checked under SpecReconcile *)

\* a well-formed Feature Schema: non-empty, no duplicate column names
WellFormed(cols) == cols # <<>> /\ NoDuplicates(cols)

HasRecord == pc \in {"reconciled", "reconciled_again"}

\* the kind step 3 coerces a column to (app.py:135)
KindOf(col) == IF DictGet(dtypes, col, "object") = "object" THEN "categorical"
               ELSE "numeric"

\* schema columns the sidebar writes, and those it never writes
Observed == Range(columns) \cap UIFields
Unobserved == Range(columns) \ UIFields

IsZero(v) == v.t \in {"int", "float"} /\ v.n = 0

Sentinels == {"None", "Caucasian", "Female"}

\* C1: for a well-formed schema the returned record has exactly the schema's
\* columns, in the schema's order, nothing else (the unconditionally written
\* age, time_in_hospital, num_lab_procedures, num_medications are dropped
\* when the schema lacks them), and exactly one row.
C1_ExactSchemaColumns ==
    (HasRecord /\ WellFormed(columns)) =>
        /\ input_data.raised = "none"
        /\ input_data.df.cols = columns
        /\ DOMAIN input_data.df.val = Range(columns)
        /\ input_data.df.rows = 1

\* a schema without age and the three counts, reconciled
C1_Witness ==
    /\ pc = "reconciled"
    /\ columns = <<"number_inpatient", "race">>
    /\ input_data.df.cols = columns
    /\ "age" \notin DOMAIN input_data.df.val

\* C2: a schema column the sidebar supplies holds the observed value in the
\* column's kind whenever the value is valid for that kind: the text itself
\* in a categorical column, the number itself in a numeric column.
C2_ObservedValuesKept ==
    (HasRecord /\ input_data.raised = "none") =>
        \A c \in Observed :
            LET v == input_data.df.val[c]
            IN /\ (KindOf(c) = "categorical" /\ widgets[c].t = "str") => v = widgets[c]
               /\ (KindOf(c) = "numeric" /\ widgets[c].t = "int") =>
                      (v.t \in {"int", "float"} /\ v.n = widgets[c].n)

\* the spec's scenario: age "[50-60)", 3, 40, 10 in the record
C2_Witness ==
    /\ pc = "reconciled"
    /\ columns = ScenarioColumns
    /\ dtypes = ScenarioSchema.dtypes
    /\ input_data.df.val["age"] = StrV("[50-60)")
    /\ input_data.df.val["time_in_hospital"] = IntV(3)
    /\ input_data.df.val["num_lab_procedures"] = IntV(40)
    /\ input_data.df.val["num_medications"] = IntV(10)

\* C3: every schema column without an observed value holds the default of
\* its kind (categorical: a sentinel category; numeric: 0), and no cell of
\* the record is unset.
C3_DefaultsOfKind ==
    (HasRecord /\ input_data.raised = "none") =>
        /\ \A c \in Unobserved :
              LET v == input_data.df.val[c]
              IN IF KindOf(c) = "categorical"
                 THEN v.t = "str" /\ v.s \in Sentinels
                 ELSE IsZero(v)
        /\ \A c \in Range(columns) : ~IsNa(input_data.df.val[c])

\* C4: for a well-formed schema, a numeric column whose held value is text
\* that is no number gets 0; no exception is raised, the record is complete
\* and its other columns are what they are when that field holds a number.
C4_BadNumericFieldDefaulted ==
    (HasRecord /\ WellFormed(columns)) =>
        /\ input_data.raised = "none"
        /\ DOMAIN input_data.df.val = Range(columns)
        /\ \A c \in Observed :
              (KindOf(c) = "numeric" /\ widgets[c].t = "str"
                 /\ IsNa(ToNumeric(widgets[c]))) =>
                 /\ IsZero(input_data.df.val[c])
                 /\ LET other == build_input_row(columns, dtypes,
                                                 [widgets EXCEPT ![c] = IntV(7)])
                    IN \A d \in Range(columns) \ {c} :
                          input_data.df.val[d] = other.df.val[d]

\* age bracket text in an int64 column, beside another column
C4_Witness ==
    /\ pc = "reconciled"
    /\ columns = <<"age", "num_medications">>
    /\ DictGet(dtypes, "age", None) = "int64"
    /\ widgets.age = StrV("[50-60)")
    /\ input_data.df.val["age"] = IntV(0)
    /\ input_data.df.val["num_medications"].n = 10

\* C5: reconciling the values of an already reconciled record against the
\* same schema returns an identical record (columns, order and values).
C5_Idempotent ==
    pc = "reconciled_again" =>
        /\ again.raised = "none"
        /\ again.df = input_data.df

\* a second pass over a record whose cells differ from what the sidebar
\* gave (a count turned to text, a bracket turned to 0)
C5_Witness ==
    /\ pc = "reconciled_again"
    /\ \E c \in Observed : input_data.df.val[c] # widgets[c]
    /\ \E c \in Observed : input_data.df.val[c].t = "str" /\ widgets[c].t = "int"
    /\ again.df = input_data.df

\* C10: a column is given its default by the same kind it is coerced to, so
\* an unobserved column coerced to text holds a sentinel category and never
\* the text of the numeric default.
C10_DefaultKindIsCoercionKind ==
    (HasRecord /\ input_data.raised = "none") =>
        \A c \in Unobserved :
            /\ (DictGet(dtypes, c, None) = "object") = (DictGet(dtypes, c, "object") = "object")
            /\ input_data.df.val[c].t = "str" => input_data.df.val[c].s \in Sentinels

-----------------------------------------------------------------------------
(* Properties of the script run, checked under Spec *)

Errors == {"error:files_not_found", "error:loading", "error:prediction",
           "error:verify_defaults", "error:unexpected"}
Results == {"result:high_risk", "result:low_risk", "result:probability",
            "result:gauge"}

\* C6: with a malformed schema (empty or duplicated column list) a request
\* fails with a schema-mismatch error before any record reaches the
\* inference entry points.
C6_MalformedSchemaRejected ==
    (pc = "done" /\ "build" \in calls /\ ~WellFormed(columns)) =>
        /\ "uncaught:SchemaMismatchError" \in display
        /\ calls \cap {"predict", "predict_proba"} = {}

\* C7: a run in which loading an artifact failed shows an error and is
\* stopped: it makes no reconciliation and no inference call.
C7_FailedLoadStops ==
    loadFailed =>
        /\ pc = "stopped"
        /\ display \cap {"error:files_not_found", "error:loading"} # {}
        /\ calls = {}
        /\ input_data = NoFrame

\* the dtype mapping failed to unpickle after the other two loaded
C7_Witness ==
    /\ loadFailed
    /\ pc = "stopped"
    /\ model = "pipeline"
    /\ dtypes = Unloaded
    /\ "error:loading" \in display

\* C8: when predict or predict_proba raises, an error is shown and no
\* prediction result (label, probability, gauge) is shown for the request.
C8_InferenceErrorSurfaced ==
    failedCall # "none" =>
        /\ display \cap Errors # {}
        /\ display \cap Results = {}

\* predict returned and predict_proba raised a non-ValueError
C8_Witness ==
    /\ pc = "done"
    /\ failedCall = "predict_proba"
    /\ "predict" \in calls
    /\ "error:unexpected" \in display

\* C9: from the end of loading to the end of the run (sidebar, build_input_row,
\* prediction) model, columns and dtypes are still what was loaded, and the
\* record of a request is the one build_input_row gives for the persisted
\* schema and the request's input alone.
C9_SchemaReadOnly ==
    /\ pc \in {"sidebar", "run_prediction", "done"} =>
          (model = "pipeline" /\ columns = diskColumns /\ dtypes = diskDtypes)
    /\ (pc = "done" /\ "build" \in calls) =>
          input_data.df = build_input_row(diskColumns, diskDtypes, widgets).df

\* a request served, the globals still the persisted schema
C9_Witness ==
    /\ pc = "done"
    /\ "predict" \in calls
    /\ columns = diskColumns
    /\ dtypes = diskDtypes
    /\ columns = ScenarioColumns

=============================================================================
